---------------------------- MODULE Spec2Model ----------------------------
(***************************************************************************)
(* A model of apt-local (src/apt-local.py): the package-specifier parser   *)
(* iter_pkg_versions, the install planner and snapshot of cmd_install and  *)
(* the flat download loop of cmd_fetch.                                    *)
(*                                                                         *)
(* Strings are sequences of one-character strings, so that str.split,      *)
(* str.strip and '%s=%s' formatting are computed, not assumed.  The apt    *)
(* cache (python-apt, not part of the repository) is modelled by what the  *)
(* program uses of it: lookup by name, the versions of a package, the      *)
(* settable candidate, essential, the candidate's priority, mark_install   *)
(* (marks the package and, transitively, the dependencies of the current   *)
(* candidates), marked_install, the iteration order and fetch_binary.      *)
(***************************************************************************)
EXTENDS Integers, Sequences, FiniteSets, TLC

VARIABLES
    cmd,             \* opts.func: "install" or "fetch"
    packages,        \* opts.packages: the positional specifiers
    file,            \* opts.file: install: list of streams (each a list of lines); fetch: flag
    listfile,        \* fetch -f: the lines of the file that opts.packages[0] names
    index,           \* what the loaded apt cache holds (fixed during a run)
    candidate,       \* pkg.candidate of every package of the cache
    marked_install,  \* pkg.marked_install of every package of the cache
    pc,              \* position in cmd_install / cmd_fetch
    pkgs,            \* the specifiers iter_pkg_versions has still to yield
    cur,             \* the specifier iter_pkg_versions took last (None before)
    name,            \* iter_pkg_versions' local `name` after the split
    version,         \* iter_pkg_versions' local `version` (None when not split)
    err,             \* the exception that ended the command ("none" when none)
    output,          \* the lines printed to opts.output
    fetched,         \* the fetch_binary calls made, in order: <<name, version>>
    reqs,            \* the request list the command settled on (pkgs when the loop began)
    run,             \* 1 for the first plan, 2 for the repeated one
    first            \* the snapshot of the first plan (empty until it is repeated)

vars == <<cmd, packages, file, listfile, index, candidate, marked_install, pc,
          pkgs, cur, name, version, err, output, fetched, reqs, run, first>>

-----------------------------------------------------------------------------
(* Bounds of the model. *)

MaxReq   == 2   \* longest list of positional specifiers
MaxFiles == 2   \* most -f streams given to install

-----------------------------------------------------------------------------
(* Strings. *)

None == <<"None">>                 \* Python's None: no string over single characters

Whitespace == {" ", "\n"}          \* what str.strip() removes (of the characters used)

Contains(s, c) == \E i \in 1..Len(s) : s[i] = c          \* `c in s`

FirstIndex(s, c) == CHOOSE k \in 1..Len(s) : s[k] = c /\ \A j \in 1..(k-1) : s[j] # c

RECURSIVE split(_, _)
\* str.split(sep): the pieces between ALL occurrences of sep.
split(s, sep) ==
    IF Contains(s, sep)
    THEN LET i == FirstIndex(s, sep)
         IN  <<SubSeq(s, 1, i - 1)>> \o split(SubSeq(s, i + 1, Len(s)), sep)
    ELSE <<s>>

\* str.strip(): drop leading and trailing whitespace.
strip(s) ==
    LET keep == {i \in 1..Len(s) : s[i] \notin Whitespace}
    IN  IF keep = {} THEN << >>
        ELSE LET lo == CHOOSE i \in keep : \A j \in keep : i <= j
                 hi == CHOOSE i \in keep : \A j \in keep : i >= j
             IN  SubSeq(s, lo, hi)

\* [l.strip() for l in list(stream)]
RECURSIVE striplines(_)
striplines(lines) ==
    IF lines = << >> THEN << >>
    ELSE <<strip(Head(lines))>> \o striplines(Tail(lines))

\* '%s=%s' % (pkg.name, pkg.candidate.version)
Format(n, v) == n \o <<"=">> \o v

Ord(c) == CASE c = "\n" -> 0 [] c = " " -> 1 [] c = "1" -> 2 [] c = "2" -> 3
            [] c = "3" -> 4 [] c = "=" -> 5 [] c = "_" -> 6 [] c = "a" -> 7
            [] c = "b" -> 8 [] c = "c" -> 9 [] c = "z" -> 10 [] OTHER -> 11

RECURSIVE StrLeq(_, _)
\* s <= t in Python's string order (lexicographic by character)
StrLeq(s, t) ==
    IF s = << >> THEN TRUE
    ELSE IF t = << >> THEN FALSE
    ELSE IF Head(s) = Head(t) THEN StrLeq(Tail(s), Tail(t))
    ELSE Ord(Head(s)) < Ord(Head(t))

-----------------------------------------------------------------------------
(* The apt cache the commands load. *)

A   == <<"a">>
B   == <<"b">>
C   == <<"c">>
V1  == <<"1">>
V2  == <<"2">>
V10 == <<"1", "_", "0">>

Names    == {A, B, C}
Versions == (A :> {V1, V2}) @@ (B :> {V1}) @@ (C :> {V10})
PkgVers  == {<<A, V1>>, <<A, V2>>, <<B, V1>>, <<C, V10>>}

\* The caches of the model: package a has two versions and either one as its
\* default candidate; a or c may be essential and b may have priority required;
\* version 1 of a may depend on b, version 2 of a on c, and b on c; the cache
\* iterates in name order or not.
Indexes ==
    { [ names     |-> Names,
        versions  |-> Versions,
        default   |-> (A :> va) @@ (B :> V1) @@ (C :> V10),
        essential |-> [p \in Names |-> p \in ess],
        priority  |-> [pv \in PkgVers |-> IF pv \in req THEN "required" ELSE "optional"],
        depends   |-> (<<A, V1>> :> d1) @@ (<<A, V2>> :> d2) @@ (<<B, V1>> :> d3)
                      @@ (<<C, V10>> :> {}),
        order     |-> ord ] :
        va  \in {V1, V2},
        ess \in {{}, {A}, {C}},
        req \in {{}, {<<B, V1>>}},
        d1  \in {{}, {B}},
        d2  \in {{}, {C}},
        d3  \in {{}, {C}},
        ord \in {<<A, B, C>>, <<C, A, B>>} }

\* Mutant of LoadCandidate: the second run finds the candidates the first left.
StaleCandidate == IF run = 2 THEN candidate ELSE index.default

\* apt.Cache(...): a freshly loaded cache has the default candidates ...
LoadCandidate == index.default

\* ... and, the dpkg status file being empty, nothing marked.
LoadMarked == [p \in index.names |-> FALSE]

RECURSIVE Closure(_, _)
\* The packages reached from S through the dependencies of the candidates.
Closure(S, cand) ==
    LET N == S \cup UNION {index.depends[<<q, cand[q]>>] : q \in S}
    IN  IF N = S THEN S ELSE Closure(N, cand)

\* pkg.mark_install(): marks pkg and, transitively, what its candidate needs.
mark_install(m, cand, p) == [q \in index.names |-> m[q] \/ q \in Closure({p}, cand)]

\* Mutant of SetCandidate: the pin is dropped.
SetCandidateNoPin(cand, n, v) == cand

\* Mutant of SetCandidate: a package already pinned keeps its first pin.
SetCandidateFirstPinWins(cand, n, v) ==
    IF cand[n] = index.default[n] THEN [cand EXCEPT ![n] = v] ELSE cand

\* pkg.candidate = cache[name].versions[version]
SetCandidate(cand, n, v) == [cand EXCEPT ![n] = v]

-----------------------------------------------------------------------------
(* iter_pkg_versions: one iteration of the generator. *)

\* name, version = name.split(sep): unpacking needs exactly two pieces.
Unpack(tok, parts) ==
    IF Len(parts) = 2
    THEN [err |-> "none", name |-> parts[1], version |-> parts[2]]
    ELSE [err |-> "ValueError", name |-> tok, version |-> None]

\* for sep in ('=', '_'): if sep in name: split, break; else: no version.
Parse(tok) ==
    IF Contains(tok, "=") THEN Unpack(tok, split(tok, "="))
    ELSE IF Contains(tok, "_") THEN Unpack(tok, split(tok, "_"))
    ELSE [err |-> "none", name |-> tok, version |-> None]

\* The package yielded for tok, with the candidates as the generator leaves them.
iter_pkg_versions(tok, cand) ==
    LET p == Parse(tok)
        fail(e) == [err |-> e, name |-> p.name, version |-> p.version, candidate |-> cand]
    IN  IF p.err # "none" THEN fail(p.err)
        ELSE IF p.name \notin index.names THEN fail("KeyError")
        ELSE IF p.version = None
             THEN [err |-> "none", name |-> p.name, version |-> None, candidate |-> cand]
        ELSE IF p.version \notin index.versions[p.name] THEN fail("KeyError")
        ELSE [err |-> "none", name |-> p.name, version |-> p.version,
              candidate |-> SetCandidate(cand, p.name, p.version)]

-----------------------------------------------------------------------------
(* cmd_install *)

\* Mutant of DefaultSelected: the priority is not looked at.
DefaultSelectedEssentialOnly(p, cand) == index.essential[p]

\* pkg.essential or pkg.candidate.priority == 'required'
DefaultSelected(p, cand) ==
    index.essential[p] \/ index.priority[<<p, cand[p]>>] = "required"

\* Mutant of DefaultPass: the loop over the cache marks nothing.
DefaultPassSkipped(m, cand, i) == m

RECURSIVE DefaultPass(_, _, _)
\* for pkg in cache: if ...: pkg.mark_install()    (from position i of the iteration)
DefaultPass(m, cand, i) ==
    IF i > Len(index.order) THEN m
    ELSE LET p == index.order[i]
         IN  DefaultPass(IF DefaultSelected(p, cand) THEN mark_install(m, cand, p) ELSE m,
                         cand, i + 1)

RECURSIVE ReadStreams(_, _)
\* for stream in opts.file: pkgs = [l.strip() for l in list(stream)]
ReadStreams(streams, acc) ==
    IF streams = << >> THEN acc
    ELSE ReadStreams(Tail(streams), striplines(Head(streams)))

\* Mutant of InstallFilter: the filter lets every package through.
InstallFilterAll(p) == TRUE

\* InstallFilter.apply
InstallFilter(p) == marked_install[p]

RECURSIVE Lines(_)
Lines(ps) ==
    IF ps = << >> THEN << >>
    ELSE <<Format(Head(ps), candidate[Head(ps)])>> \o Lines(Tail(ps))

\* Mutant of Snapshot: the lines are printed in name order.
SnapshotSortedByName ==
    LET sorted == CHOOSE ps \in [1..Cardinality(index.names) -> index.names] :
                      \A i, j \in DOMAIN ps : i < j => (ps[i] # ps[j] /\ StrLeq(ps[i], ps[j]))
        keep(p) == marked_install[p]
    IN  Lines(SelectSeq(sorted, keep))

\* for pkg in fcache: print('%s=%s' % ...): the filtered cache, in cache order.
Snapshot ==
    LET keep(p) == InstallFilter(p)
    IN  Lines(SelectSeq(index.order, keep))

InstallOpen ==
    /\ cmd = "install" /\ pc = "start"
    /\ candidate' = LoadCandidate
    /\ marked_install' = LoadMarked
    /\ pc' = "defaults"
    /\ UNCHANGED <<cmd, packages, file, listfile, index, pkgs, cur, name, version,
                   err, output, fetched, reqs, run, first>>

InstallDefaults ==
    /\ cmd = "install" /\ pc = "defaults"
    /\ marked_install' = DefaultPass(marked_install, candidate, 1)
    /\ pc' = "requests"
    /\ UNCHANGED <<cmd, packages, file, listfile, index, candidate, pkgs, cur, name,
                   version, err, output, fetched, reqs, run, first>>

InstallRequests ==
    /\ cmd = "install" /\ pc = "requests"
    /\ pkgs' = IF file # << >> THEN ReadStreams(file, << >>) ELSE packages
    /\ reqs' = pkgs'
    /\ pc' = "explicit"
    /\ UNCHANGED <<cmd, packages, file, listfile, index, candidate, marked_install,
                   cur, name, version, err, output, fetched, run, first>>

InstallNext ==
    /\ cmd = "install" /\ pc = "explicit" /\ pkgs # << >>
    /\ LET r == iter_pkg_versions(Head(pkgs), candidate)
       IN  /\ cur' = Head(pkgs)
           /\ name' = r.name
           /\ version' = r.version
           /\ err' = r.err
           /\ candidate' = r.candidate
           /\ IF r.err = "none"
              THEN /\ marked_install' = mark_install(marked_install, r.candidate, r.name)
                   /\ pkgs' = Tail(pkgs)
                   /\ pc' = "explicit"
              ELSE /\ pc' = "failed"
                   /\ UNCHANGED <<marked_install, pkgs>>
    /\ UNCHANGED <<cmd, packages, file, listfile, index, output, fetched, reqs, run, first>>

InstallSnapshot ==
    /\ cmd = "install" /\ pc = "explicit" /\ pkgs = << >>
    /\ output' = Snapshot
    /\ pc' = "done"
    /\ UNCHANGED <<cmd, packages, file, listfile, index, candidate, marked_install,
                   pkgs, cur, name, version, err, fetched, reqs, run, first>>

\* The same command line run again: main creates a new apt.Cache.
Reinvoke ==
    /\ cmd = "install" /\ pc = "done" /\ run = 1
    /\ run' = 2
    /\ first' = output
    /\ output' = << >>
    /\ cur' = None /\ name' = None /\ version' = None
    /\ pc' = "start"
    /\ UNCHANGED <<cmd, packages, file, listfile, index, candidate, marked_install,
                   pkgs, err, fetched, reqs>>

\* The planning passes run again on the cache the first plan left.
Replan ==
    /\ cmd = "install" /\ pc = "done" /\ run = 1
    /\ run' = 2
    /\ first' = output
    /\ output' = << >>
    /\ cur' = None /\ name' = None /\ version' = None
    /\ pc' = "defaults"
    /\ UNCHANGED <<cmd, packages, file, listfile, index, candidate, marked_install,
                   pkgs, err, fetched, reqs>>

-----------------------------------------------------------------------------
(* cmd_fetch *)

\* Mutant of fetch_binary: a dependency of the version is downloaded too.
fetch_binary_with_depends(f, n, v) ==
    LET deps == index.depends[<<n, v>>]
    IN  IF deps = {} THEN Append(f, <<n, v>>)
        ELSE LET q == CHOOSE d \in deps : TRUE
             IN  Append(Append(f, <<n, v>>), <<q, candidate[q]>>)

\* pkg.candidate.fetch_binary(destdir=opts.dest): one artifact, that version's.
fetch_binary(f, n, v) == Append(f, <<n, v>>)

FetchOpen ==
    /\ cmd = "fetch" /\ pc = "start"
    /\ candidate' = LoadCandidate
    /\ marked_install' = LoadMarked
    /\ pkgs' = IF file THEN striplines(listfile) ELSE packages
    /\ reqs' = pkgs'
    /\ pc' = "fetching"
    /\ UNCHANGED <<cmd, packages, file, listfile, index, cur, name, version, err,
                   output, fetched, run, first>>

FetchNext ==
    /\ cmd = "fetch" /\ pc = "fetching" /\ pkgs # << >>
    /\ LET r == iter_pkg_versions(Head(pkgs), candidate)
       IN  /\ cur' = Head(pkgs)
           /\ name' = r.name
           /\ version' = r.version
           /\ err' = r.err
           /\ candidate' = r.candidate
           /\ IF r.err = "none"
              THEN /\ fetched' = fetch_binary(fetched, r.name, r.candidate[r.name])
                   /\ pkgs' = Tail(pkgs)
                   /\ pc' = "fetching"
              ELSE /\ pc' = "failed"
                   /\ UNCHANGED <<fetched, pkgs>>
    /\ UNCHANGED <<cmd, packages, file, listfile, index, marked_install, output, reqs,
                   run, first>>

FetchDone ==
    /\ cmd = "fetch" /\ pc = "fetching" /\ pkgs = << >>
    /\ pc' = "done"
    /\ UNCHANGED <<cmd, packages, file, listfile, index, candidate, marked_install,
                   pkgs, cur, name, version, err, output, fetched, reqs, run, first>>

-----------------------------------------------------------------------------
(* Command lines. *)

Tokens ==
    { A,                                  \* a
      <<"a", "=", "2">>,                  \* a=2
      <<"a", "_", "1">>,                  \* a_1
      <<"c", "=", "1", "_", "0">>,        \* c=1_0   (both delimiters)
      <<"z">>,                            \* z       (no such package)
      <<"a", "=", "3">>,                  \* a=3     (no such version)
      <<"a", "=", "1", "=", "2">> }       \* a=1=2   (delimiter twice)

RECURSIVE SeqsUpTo(_, _)
SeqsUpTo(S, n) ==
    IF n = 0 THEN {<< >>}
    ELSE LET shorter == SeqsUpTo(S, n - 1)
         IN  shorter \cup {Append(s, x) : s \in shorter, x \in S}

Line(tok) == tok \o <<"\n">>

\* What a -f stream of install may hold.
Streams == { << >>, <<Line(A)>>, <<Line(<<"c", "=", "1", "_", "0">>)>> }

\* What the list file of fetch -f may hold.
ListFiles == { <<Line(A)>>, <<Line(<<"a", "=", "2">>), Line(A)>>, <<Line(<<"z">>)>> }

Init ==
    /\ index \in Indexes
    /\ \/ /\ cmd = "install"
          /\ \/ file = << >> /\ packages \in SeqsUpTo(Tokens, MaxReq)
             \/ /\ file \in SeqsUpTo(Streams, MaxFiles) \ {<< >>}
                /\ packages \in {<< >>, <<B>>}
          /\ listfile = << >>
       \/ /\ cmd = "fetch"
          /\ \/ /\ file = FALSE
                /\ packages \in SeqsUpTo(Tokens, MaxReq) \ {<< >>}
                /\ listfile = << >>
             \/ /\ file = TRUE
                /\ packages = <<<<"l">>>>
                /\ listfile \in ListFiles
    /\ candidate = index.default
    /\ marked_install = [p \in index.names |-> FALSE]
    /\ pc = "start"
    /\ pkgs = << >>
    /\ cur = None /\ name = None /\ version = None
    /\ err = "none"
    /\ output = << >>
    /\ fetched = << >>
    /\ reqs = << >>
    /\ run = 1
    /\ first = << >>

\* The shape of the state: the options, the cache and the locals of the commands.
TypeOK ==
    /\ cmd \in {"install", "fetch"}
    /\ index \in Indexes
    /\ candidate \in [index.names -> UNION {index.versions[p] : p \in index.names}]
    /\ \A p \in index.names : candidate[p] \in index.versions[p]
    /\ marked_install \in [index.names -> BOOLEAN]
    /\ pc \in {"start", "defaults", "requests", "explicit", "fetching", "done", "failed"}
    /\ err \in {"none", "ValueError", "KeyError"}
    /\ (pc = "failed") = (err # "none")
    /\ cmd = "fetch" => file \in BOOLEAN /\ output = << >>
    /\ cmd = "install" => fetched = << >>
    /\ Len(pkgs) <= Len(reqs)
    /\ \A i \in 1..Len(pkgs) : pkgs[i] = reqs[Len(reqs) - Len(pkgs) + i]
    /\ run \in {1, 2}

Next ==
    \/ InstallOpen
    \/ InstallDefaults
    \/ InstallRequests
    \/ InstallNext
    \/ InstallSnapshot
    \/ Reinvoke
    \/ Replan
    \/ FetchOpen
    \/ FetchNext
    \/ FetchDone

Spec == Init /\ [][Next]_vars

-----------------------------------------------------------------------------
(* What the specification says of a specifier, stated apart from the code. *)

SplitAtFirst(tok, sep) ==
    LET i == FirstIndex(tok, sep)
    IN  [name |-> SubSeq(tok, 1, i - 1), version |-> SubSeq(tok, i + 1, Len(tok))]

\* '=' first, then '_'; the first delimiter found splits the token.
SpecifierOf(tok) ==
    IF Contains(tok, "=") THEN SplitAtFirst(tok, "=")
    ELSE IF Contains(tok, "_") THEN SplitAtFirst(tok, "_")
    ELSE [name |-> tok, version |-> None]

\* The specifier names a package of the cache and, if any, one of its versions.
Resolvable(tok) ==
    LET s == SpecifierOf(tok)
    IN  /\ s.name \in index.names
        /\ s.version = None \/ s.version \in index.versions[s.name]

\* The specifier pins package p to version v.
Pins(tok, p, v) == SpecifierOf(tok) = [name |-> p, version |-> v]

\* The specifier names package p and carries a version.
Repins(tok, p) == SpecifierOf(tok).name = p /\ SpecifierOf(tok).version # None

\* The package name of a snapshot line name=version.
NameOf(line) == SplitAtFirst(line, "=").name

\* Selected by default on a freshly loaded cache.
IsDefault(p) ==
    index.essential[p] \/ index.priority[<<p, index.default[p]>>] = "required"

\* q is reached from a default package through dependencies of the candidates.
IsDependency(q) ==
    \E s \in SeqsUpTo(index.names, Cardinality(index.names)) :
        /\ Len(s) >= 2
        /\ IsDefault(s[1])
        /\ s[Len(s)] = q
        /\ \A i \in 1..(Len(s) - 1) : s[i + 1] \in index.depends[<<s[i], candidate[s[i]]>>]

Position(p) == CHOOSE i \in 1..Len(index.order) : index.order[i] = p

InstallDone == cmd = "install" /\ pc = "done"

-----------------------------------------------------------------------------
(* C1 *)

\* C1 (as claimed): every token the parser takes is split into the (name,
\* version) pair the specification gives: at the first '=', else at the first
\* '_', else the whole token and no version.
C1_EveryTokenYieldsPair ==
    cur # None =>
        /\ err # "ValueError"
        /\ name = SpecifierOf(cur).name
        /\ version = SpecifierOf(cur).version

-----------------------------------------------------------------------------
(* C2 *)

\* C2: a plan with an empty request list on a freshly loaded cache does not
\* fail, and once the passes are over every essential or required package is
\* marked, and no package is marked that is neither essential nor required nor
\* a transitive dependency of such a package.
C2_DefaultClosure ==
    (/\ cmd = "install" /\ run = 1
     /\ file = << >> /\ packages = << >>
     /\ pc \in {"explicit", "done", "failed"})
    => /\ pc # "failed"
       /\ \A p \in index.names :
            /\ IsDefault(p) => marked_install[p]
            /\ (~IsDefault(p) /\ ~IsDependency(p)) => ~marked_install[p]

\* An empty plan is done with an essential package, a required one, a
\* dependency and an unmarked package.
C2_Witness ==
    /\ InstallDone /\ run = 1 /\ file = << >> /\ packages = << >>
    /\ index.essential[A] /\ marked_install[A]
    /\ index.priority[<<B, V1>>] = "required" /\ marked_install[B]
    /\ ~marked_install[C]

C2_WitnessDependency ==
    /\ InstallDone /\ run = 1 /\ file = << >> /\ packages = << >>
    /\ ~IsDefault(C) /\ IsDependency(C) /\ marked_install[C]

-----------------------------------------------------------------------------
(* C3 *)

\* The request list pins p to the existing version v, and no later specifier
\* of the list pins p again.
LastPin(p, v) ==
    \E i \in 1..Len(reqs) :
        /\ Pins(reqs[i], p, v)
        /\ v \in index.versions[p]
        /\ \A j \in (i + 1)..Len(reqs) : ~Repins(reqs[j], p)

\* C3: when a package selected by default has several versions and the request
\* list pins it to an existing version other than its default candidate, the
\* finished plan has it marked and the snapshot lists it with the pinned
\* version and not with the default one.
C3_ExplicitOverride ==
    (InstallDone /\ run = 1) =>
        \A p \in index.names : \A v \in index.versions[p] :
            (IsDefault(p) /\ v # index.default[p] /\ LastPin(p, v)) =>
                /\ marked_install[p]
                /\ \E i \in 1..Len(output) : output[i] = Format(p, v)
                /\ \A i \in 1..Len(output) : output[i] # Format(p, index.default[p])

C3_Witness ==
    /\ InstallDone /\ run = 1
    /\ IsDefault(A) /\ index.default[A] = V1 /\ LastPin(A, V2)
    /\ \E i \in 1..Len(output) : output[i] = Format(A, V2)

-----------------------------------------------------------------------------
(* C4 *)

\* C4 (as claimed): a plan that fails on an unknown package or version has
\* printed nothing and has left no flag set that a fresh cache does not have.
C4_NoNewFlags ==
    (cmd = "install" /\ run = 1 /\ pc = "failed" /\ err = "KeyError") =>
        /\ output = << >>
        /\ \A p \in index.names : ~marked_install[p]

\* C4 (amended): a plan that fails on an unknown package or version has
\* printed nothing; the flags set by the default pass and by the specifiers
\* before the failing one stay set, and no other flag is set.
C4_FailedPlanKeepsMarks ==
    (cmd = "install" /\ run = 1 /\ pc = "failed" /\ err = "KeyError") =>
        LET k == Len(reqs) - Len(pkgs) + 1      \* the failing specifier
            named == {SpecifierOf(reqs[i]).name : i \in 1..(k - 1)}
        IN  /\ output = << >>
            /\ cur = reqs[k] /\ ~Resolvable(reqs[k])
            /\ \A p \in index.names : IsDefault(p) => marked_install[p]
            /\ \A p \in named : marked_install[p]
            /\ \A p \in index.names :
                 marked_install[p] => \/ IsDefault(p)
                                      \/ p \in named
                                      \/ \E q \in index.names :
                                           \E v \in index.versions[q] :
                                              p \in index.depends[<<q, v>>]

\* The second specifier fails after the first one and the default pass marked.
C4_Witness ==
    /\ cmd = "install" /\ run = 1 /\ pc = "failed" /\ err = "KeyError"
    /\ Len(reqs) = 2 /\ Len(pkgs) = 1
    /\ reqs[1] = A /\ marked_install[A] /\ ~IsDefault(A)
    /\ IsDefault(B) /\ marked_install[B]

-----------------------------------------------------------------------------
(* C5 *)

\* C5: the snapshot of a finished plan holds exactly one line name=candidate
\* version for every marked package and no other line.
C5_SnapshotContents ==
    InstallDone =>
        /\ \A p \in index.names :
             marked_install[p] =>
                Cardinality({i \in 1..Len(output) : output[i] = Format(p, candidate[p])}) = 1
        /\ \A i \in 1..Len(output) :
             /\ NameOf(output[i]) \in index.names
             /\ marked_install[NameOf(output[i])]
        /\ Len(output) = Cardinality({p \in index.names : marked_install[p]})

\* A default package, a requested one and a dependency are listed; one is not.
C5_Witness ==
    /\ InstallDone /\ Len(output) = 2
    /\ \E p \in index.names : ~marked_install[p]
    /\ \E p \in index.names : marked_install[p] /\ ~IsDefault(p)
                              /\ \A i \in 1..Len(reqs) : SpecifierOf(reqs[i]).name # p

-----------------------------------------------------------------------------
(* C6 *)

\* C6 (as claimed): the lines of the snapshot are in ascending order of name.
C6_SortedByName ==
    InstallDone =>
        \A i, j \in 1..Len(output) :
            i < j => StrLeq(NameOf(output[i]), NameOf(output[j]))

\* C6 (amended): the lines of the snapshot follow the iteration order of the
\* cache: sorted by name exactly when the cache iterates in name order.
C6_CacheOrder ==
    InstallDone =>
        \A i, j \in 1..Len(output) :
            i < j => Position(NameOf(output[i])) < Position(NameOf(output[j]))

C6_Witness ==
    /\ InstallDone /\ Len(output) >= 2
    /\ ~StrLeq(NameOf(output[1]), NameOf(output[2]))

-----------------------------------------------------------------------------
(* C7 *)

\* C7: the plan run a second time with the same requests, on a new cache or on
\* the cache the first plan left, finishes with the snapshot of the first.
C7_Idempotence ==
    (run = 2 /\ pc \in {"done", "failed"}) => (pc = "done" /\ output = first)

C7_Witness ==
    /\ run = 2 /\ pc = "done" /\ Len(output) >= 2 /\ reqs # << >>
    /\ \E p \in index.names : candidate[p] # index.default[p]

-----------------------------------------------------------------------------
(* C8 *)

\* The version the i-th specifier of the list is to fetch: its own, else the
\* one the last earlier pin of the same package left, else the default.
RECURSIVE ResolvedVersion(_, _)
ResolvedVersion(i, p) ==
    IF i = 0 THEN index.default[p]
    ELSE IF Repins(reqs[i], p) THEN SpecifierOf(reqs[i]).version
    ELSE ResolvedVersion(i - 1, p)

\* C8: fetch downloads one artifact per specifier taken so far, in list order,
\* each the resolved candidate version of the named package, and marks nothing;
\* when it is done it has downloaded one artifact per specifier of the list.
C8_FetchIsFlat ==
    cmd = "fetch" =>
        /\ \A p \in index.names : ~marked_install[p]
        /\ Len(fetched) = Len(reqs) - Len(pkgs)
        /\ \A i \in 1..Len(fetched) :
             fetched[i] = <<SpecifierOf(reqs[i]).name,
                            ResolvedVersion(i, SpecifierOf(reqs[i]).name)>>
        /\ pc = "done" => Len(fetched) = Len(reqs)

\* Two artifacts of a package with a dependency are fetched, the dependency not.
C8_Witness ==
    /\ cmd = "fetch" /\ pc = "done"
    /\ fetched = <<<<A, V2>>, <<A, V1>>>>
    /\ index.depends[<<A, V1>>] = {B} /\ index.depends[<<A, V2>>] = {C}

-----------------------------------------------------------------------------
(* C9 *)

\* The list names p twice with different existing versions, w the later one
\* and the last pin of p in the list.
PinnedTwice(p, w) ==
    \E i, j \in 1..Len(reqs) :
        /\ i < j
        /\ \E v \in index.versions[p] : v # w /\ Pins(reqs[i], p, v)
        /\ Pins(reqs[j], p, w) /\ w \in index.versions[p]
        /\ \A k \in (j + 1)..Len(reqs) : ~Repins(reqs[k], p)

\* C9: when every specifier of the list resolves and the list pins a package
\* twice to different versions, the plan does not fail and its snapshot lists
\* the package once, with the version of the last pin.
C9_LastWriteWins ==
    (cmd = "install" /\ run = 1 /\ pc \in {"done", "failed"}) =>
        \A p \in index.names : \A w \in index.versions[p] :
            (PinnedTwice(p, w) /\ \A i \in 1..Len(reqs) : Resolvable(reqs[i])) =>
                /\ pc = "done"
                /\ {i \in 1..Len(output) : NameOf(output[i]) = p}
                     = {i \in 1..Len(output) : output[i] = Format(p, w)}
                /\ Cardinality({i \in 1..Len(output) : output[i] = Format(p, w)}) = 1

C9_Witness ==
    /\ InstallDone /\ run = 1
    /\ PinnedTwice(A, V1) /\ index.default[A] = V1
    /\ \E i \in 1..Len(output) : output[i] = Format(A, V1)

-----------------------------------------------------------------------------
(* C10 *)

\* C10 (as claimed): when install is given -f files and the plan is done,
\* every package named on a line of any of the files is marked and listed.
C10_EveryFileIsRequested ==
    (InstallDone /\ run = 1 /\ file # << >>) =>
        \A k \in 1..Len(file) : \A l \in 1..Len(file[k]) :
            LET p == SpecifierOf(strip(file[k][l])).name
            IN  /\ p \in index.names
                /\ marked_install[p]
                /\ \E i \in 1..Len(output) : NameOf(output[i]) = p

=============================================================================
